---- MODULE Spec2Model ----
(***************************************************************************)
(* A model of fast_processing_engine (EC_Processing_Engine): the raw-file  *)
(* index, the per-interval assembly of each site's files, header           *)
(* harmonization, diagnostic decoding, the multi-site outer merge onto the *)
(* dense time axis, the written table and the summary accumulator.         *)
(*                                                                         *)
(* Representation.                                                         *)
(*  - A column name is the sequence of its '_'-separated tokens, so that   *)
(*    'Ux_CSAT3_NF17' is <<"Ux","CSAT3","NF17">>; str.split('_') is then   *)
(*    the name itself.                                                     *)
(*  - A timestamp is a number of milliseconds counted from the midnight    *)
(*    that starts calendar day day0; calendar days are numbered from       *)
(*    2019-01-01 (day 0).                                                  *)
(*  - A data frame is [cols, idx, rows]: the column labels in order, idx = *)
(*    TRUE when TIMESTAMP is the index (and then no column), and the rows  *)
(*    grouped by their TIMESTAMP: rows[t] lists, in frame order, the rows  *)
(*    stamped t, each as the set of column positions that hold a value     *)
(*    (every other position is NaN).  The order between rows of different  *)
(*    timestamps is not kept: a site's frame is only ever merged, and the  *)
(*    merge sorts by timestamp.  The measured values are not modelled.     *)
(*  - A call that may raise returns [st, df]: st = "ok" or the exception.  *)
(***************************************************************************)
EXTENDS Integers, Sequences, FiniteSets, TLC

VARIABLES
    day0,          \* calendar day of the midnight timestamps are counted from
    site_names,    \* the keys of self.site_info, in declaration order
    acq_freq,      \* self.acq_freq
    file_length,   \* self.file_length (minutes)
    start_time,    \* self.start_time
    end_time,      \* self.end_time
    converted,     \* per site: the TOA5*.dat files of its converted_path, in glob order
    site_info,     \* per site: fns, file_tss, fns_temp, file_tss_temp, n_files_converted
    ifile,         \* per site: number of metadata rows written
    metadata,      \* per site: rawfile_metadata, the rows written so far
    idfts,         \* index of the next output interval
    dat,           \* the merged frame returned by the last process_interval
    written,       \* per interval index: the column labels of the table written
    summary_arr,   \* the accumulator: interval -> (site, variable) -> cell
    popped,        \* history: per site, the (interval, file, timestamp) pops in order
    pc,            \* position of process_fast_files
    hsite,         \* reorder_headers study: site
    hfts,          \* reorder_headers study: reference timestamp
    hdf,           \* reorder_headers study: the input frame
    hout,          \* reorder_headers study: the outcome
    hhout,         \* reorder_headers study: the outcome of harmonizing hout again
    dsite,         \* process_diagnostics study: site
    ddf,           \* process_diagnostics study: the input frame
    dout,          \* process_diagnostics study: the outcome
    ddout,         \* process_diagnostics study: the outcome of decoding dout again
    dinstr,        \* diag_dict study: the instrument family
    dx,            \* diag_dict study: the raw diagnostic integer
    dflag          \* diag_dict study: the flag, -1 before it is computed

runvars == <<converted, site_info, ifile, metadata, idfts, dat, written,
             summary_arr, popped, pc>>
cfgvars == <<day0, site_names, acq_freq, file_length, start_time, end_time>>
hvars == <<hsite, hfts, hdf, hout, hhout>>
dvars == <<dsite, ddf, dout, ddout, dinstr, dx, dflag>>
vars == <<cfgvars, runvars, hvars, dvars>>

(***************************************************************************)
(* Calendar                                                                *)
(***************************************************************************)
MsPerMin == 60000
MsPerDay == 86400000

\* pd.to_datetime("2019-05-19"), "2019-02-13", "2100-11-19" as day numbers
Day_2019_05_19 == 138
Day_2019_02_13 == 43
Day_2100_11_19 == 29907

\* fts.date(): the calendar day of a timestamp
DateOf(fts) == day0 + (fts \div MsPerDay)

(***************************************************************************)
(* Sequence helpers                                                        *)
(***************************************************************************)
Range(s) == {s[i] : i \in DOMAIN s}

IsUnique(s) == \A i, j \in DOMAIN s : s[i] = s[j] => i = j

RECURSIVE Flatten(_)
Flatten(ss) == IF ss = <<>> THEN <<>> ELSE Head(ss) \o Flatten(Tail(ss))

\* the positions of s that hold x, ascending
RECURSIVE PositionsFrom(_, _, _)
PositionsFrom(s, x, i) ==
    IF i > Len(s) THEN <<>>
    ELSE (IF s[i] = x THEN <<i>> ELSE <<>>) \o PositionsFrom(s, x, i + 1)

Positions(s, x) == PositionsFrom(s, x, 1)

(***************************************************************************)
(* Column names                                                            *)
(***************************************************************************)
TIMESTAMP == <<"TIMESTAMP">>
RECORD == <<"RECORD">>

Sites == {"NF17", "NF3", "SF4", "SF7", "UF3"}

final_headers ==
    [site \in Sites |->
       CASE site = "NF17" ->
              << TIMESTAMP, RECORD,
                 <<"Ux","CSAT3","NF17">>, <<"Uy","CSAT3","NF17">>,
                 <<"Uz","CSAT3","NF17">>, <<"Ts","CSAT3","NF17">>,
                 <<"Ux","CSAT3","NF7">>, <<"Uy","CSAT3","NF7">>,
                 <<"Uz","CSAT3","NF7">>, <<"Ts","CSAT3","NF7">>,
                 <<"CO2","LI7500","NF17">>, <<"H2O","LI7500","NF17">>,
                 <<"PCELL","LI7500","NF17">>, <<"TCELL","LI7500","NF17">>,
                 <<"DIAG","CSAT3","NF17">>, <<"flag","CSAT3","NF17">>,
                 <<"DIAG","CSAT3","NF7">>, <<"flag","CSAT3","NF7">>,
                 <<"DIAG","LI7500","NF17">> >>
         [] site = "NF3" ->
              << TIMESTAMP, RECORD,
                 <<"Ux","CSAT3B","NF3">>, <<"Uy","CSAT3B","NF3">>,
                 <<"Uz","CSAT3B","NF3">>, <<"Ts","CSAT3B","NF3">>,
                 <<"CO2","LI7500","NF3">>, <<"H2O","LI7500","NF3">>,
                 <<"PCELL","LI7500","NF3">>, <<"TCELL","LI7500","NF3">>,
                 <<"DIAG","CSAT3B","NF3">>, <<"flag","CSAT3B","NF3">>,
                 <<"DIAG","LI7500","NF3">> >>
         [] site = "SF4" ->
              << TIMESTAMP, RECORD,
                 <<"Ux","SON","SF4">>, <<"Uy","SON","SF4">>,
                 <<"Uz","SON","SF4">>, <<"Ts","SON","SF4">>,
                 <<"CO2","IRGA","SF4">>, <<"H2O","IRGA","SF4">>,
                 <<"PCELL","IRGA","SF4">>, <<"TCELL","IRGA","SF4">>,
                 <<"DIAG","SON","SF4">>, <<"flag","SON","SF4">>,
                 <<"DIAG","IRGA","SF4">> >>
         [] site = "SF7" ->
              << TIMESTAMP, RECORD,
                 <<"Ux","CSAT3B","SF7">>, <<"Uy","CSAT3B","SF7">>,
                 <<"Uz","CSAT3B","SF7">>, <<"Ts","CSAT3B","SF7">>,
                 <<"CO2","LI7500","SF7">>, <<"H2O","LI7500","SF7">>,
                 <<"PCELL","LI7500","SF7">>, <<"TCELL","LI7500","SF7">>,
                 <<"DIAG","CSAT3B","SF7">>, <<"flag","CSAT3B","SF7">>,
                 <<"DIAG","LI7500","SF7">> >>
         [] site = "UF3" ->
              << TIMESTAMP, RECORD,
                 <<"Ux","SON","UF3">>, <<"Uy","SON","UF3">>,
                 <<"Uz","SON","UF3">>, <<"Ts","SON","UF3">>,
                 <<"CO2","IRGA","UF3">>, <<"H2O","IRGA","UF3">>,
                 <<"PCELL","IRGA","UF3">>, <<"TCELL","IRGA","UF3">>,
                 <<"DIAG","SON","UF3">>, <<"flag","SON","UF3">>,
                 <<"DIAG","IRGA","UF3">> >> ]

\* self.acq_period, in ms
acq_period == 1000 \div acq_freq

\* self.n_records
n_records == file_length * acq_freq * 60

(***************************************************************************)
(* Data frames                                                             *)
(***************************************************************************)
NoFrame == [cols |-> <<>>, idx |-> FALSE, rows |-> <<>>]

\* f itself, evaluated once (TLC otherwise re-evaluates [x \in S |-> e] at each use)
Fn(f) == f @@ <<>>
Sq(s) == s \o <<>>

\* the grouped rows of a list of (ts, nm) rows
GroupRows(list) ==
    Fn([t \in {list[i].ts : i \in DOMAIN list} |->
          LET same == SelectSeq(list, LAMBDA r : r.ts = t)
          IN  Sq([x \in DOMAIN same |-> same[x].nm])])

\* len(df): the number of rows
NRows(df) == Cardinality(UNION {{<<t, x>> : x \in DOMAIN df.rows[t]} : t \in DOMAIN df.rows})

Ok(df) == [st |-> "ok", df |-> df]
Raise(exc) == [st |-> exc, df |-> NoFrame]

\* The frame whose k-th column is labelled names[k] and holds column src[k]
\* of df (a column of NaN when src[k] = 0).
Project(df, names, src) ==
    [cols |-> names,
     idx  |-> df.idx,
     rows |-> Fn([t \in DOMAIN df.rows |->
                    Sq([x \in DOMAIN df.rows[t] |->
                          {k \in DOMAIN src : src[k] \in df.rows[t][x]}])])]

\* df.loc[:, df.columns != name]
DropColumn(df, name) ==
    LET keep == SelectSeq([k \in DOMAIN df.cols |-> k], LAMBDA k : df.cols[k] # name)
    IN  Project(df, [k \in DOMAIN keep |-> df.cols[keep[k]]], keep)

\* df.set_index('TIMESTAMP'): KeyError when no column has that label
SetIndexTimestamp(df) ==
    IF TIMESTAMP \notin Range(df.cols) THEN Raise("KeyError")
    ELSE Ok([DropColumn(df, TIMESTAMP) EXCEPT !.idx = TRUE])

\* the position of x in s, 0 when s does not hold it
IndexOf(s, x) == IF x \in Range(s) THEN CHOOSE i \in DOMAIN s : s[i] = x /\ \A j \in 1..(i - 1) : s[j] # x ELSE 0

\* df.reindex(columns=target, fill_value=nan): a label df lacks becomes a
\* column of NaN, a label repeated in target a repeated column; pandas
\* refuses ("cannot reindex on an axis with duplicate labels") when the
\* labels of df itself repeat.
Reindex(df, target) ==
    IF ~IsUnique(df.cols) THEN Raise("ValueError")
    ELSE Ok(Project(df, target, [k \in DOMAIN target |-> IndexOf(df.cols, target[k])]))

\* make_empty(fts, site): two all-NaN rows, 100 ms apart, TIMESTAMP as index
make_empty(fts, site) ==
    LET stamps == [cols |-> <<TIMESTAMP>>,
                   idx  |-> FALSE,
                   rows |-> GroupRows(<< [ts |-> fts + acq_period, nm |-> {1}],
                                         [ts |-> fts + acq_period + 100, nm |-> {1}] >>)]
    IN  SetIndexTimestamp(Reindex(stamps, final_headers[site]).df).df

(***************************************************************************)
(* reorder_headers: the date-keyed rules                                   *)
(***************************************************************************)
\* a rule that adds and renames
MapRule(add, ren) == [kind |-> "map", cols_to_add |-> add, renaming_dict |-> ren]
\* the "maintenance" day
Maintenance == [kind |-> "maintenance", cols_to_add |-> <<>>, renaming_dict |-> <<>>]
\* no branch taken: cols_to_add and renaming_dict stay unbound
Unbound == [kind |-> "unbound", cols_to_add |-> <<>>, renaming_dict |-> <<>>]

\* the rule the if/elif chain selects for a site and a calendar day; a
\* renaming_dict is the sequence of its (old, new) pairs
\* date conditions that hold on the boundary date as well
RuleConditionsClosed(site, d) ==
    CASE site \in {"NF17", "NF3", "SF7"} ->
           <<d <= Day_2019_05_19, d >= Day_2019_05_19, d = Day_2019_05_19>>
      [] site = "SF4" -> <<d <= Day_2100_11_19>>
      [] site = "UF3" -> <<d >= Day_2019_02_13>>

\* the date conditions of a site's branches in reorder_headers, in the order
\* of the if/elif chain, each evaluated by itself for calendar day d
RuleConditions(site, d) ==
    CASE site \in {"NF17", "NF3", "SF7"} ->
           <<d < Day_2019_05_19, d > Day_2019_05_19, d = Day_2019_05_19>>
      [] site = "SF4" -> <<d < Day_2100_11_19>>
      [] site = "UF3" -> <<d > Day_2019_02_13>>

HeaderRule(site, d) ==
    CASE site = "NF17" ->
           IF d < Day_2019_05_19 THEN
             MapRule(<< <<"PCELL","LI7500","NF17">>, <<"DIAG","CSAT3","NF17">>,
                        <<"DIAG","CSAT3","NF7">>, <<"flag","CSAT3","NF17">>,
                        <<"flag","CSAT3","NF7">>, <<"TCELL","LI7500","NF17">> >>,
                     << << <<"Ux","CSAT3","17m">>, <<"Ux","CSAT3","NF17">> >>,
                        << <<"Uy","CSAT3","17m">>, <<"Uy","CSAT3","NF17">> >>,
                        << <<"Uz","CSAT3","17m">>, <<"Uz","CSAT3","NF17">> >>,
                        << <<"Ts","CSAT3","17m">>, <<"Ts","CSAT3","NF17">> >>,
                        << <<"Ux","CSAT3","7m">>, <<"Ux","CSAT3","NF7">> >>,
                        << <<"Uy","CSAT3","7m">>, <<"Uy","CSAT3","NF7">> >>,
                        << <<"Uz","CSAT3","7m">>, <<"Uz","CSAT3","NF7">> >>,
                        << <<"Ts","CSAT3","7m">>, <<"Ts","CSAT3","NF7">> >>,
                        << <<"rho","c","LI7500">>, <<"CO2","LI7500","NF17">> >>,
                        << <<"rho","v","LI7500">>, <<"H2O","LI7500","NF17">> >>,
                        << <<"DIAG","LI7500">>, <<"DIAG","LI7500","NF17">> >> >>)
           ELSE IF d > Day_2019_05_19 THEN
             MapRule(<< <<"DIAG","CSAT3","NF17">>, <<"DIAG","CSAT3","NF7">>,
                        <<"flag","CSAT3","NF17">>, <<"flag","CSAT3","NF7">>,
                        <<"TCELL","LI7500","NF17">> >>,
                     << << <<"Ux","CSAT3","17m">>, <<"Ux","CSAT3","NF17">> >>,
                        << <<"Uy","CSAT3","17m">>, <<"Uy","CSAT3","NF17">> >>,
                        << <<"Uz","CSAT3","17m">>, <<"Uz","CSAT3","NF17">> >>,
                        << <<"Ts","CSAT3","17m">>, <<"Ts","CSAT3","NF17">> >>,
                        << <<"Ux","CSAT3","7m">>, <<"Ux","CSAT3","NF7">> >>,
                        << <<"Uy","CSAT3","7m">>, <<"Uy","CSAT3","NF7">> >>,
                        << <<"Uz","CSAT3","7m">>, <<"Uz","CSAT3","NF7">> >>,
                        << <<"Ts","CSAT3","7m">>, <<"Ts","CSAT3","NF7">> >>,
                        << <<"rho","c","LI7500">>, <<"CO2","LI7500","NF17">> >>,
                        << <<"rho","v","LI7500">>, <<"H2O","LI7500","NF17">> >>,
                        << <<"P","LI7500">>, <<"PCELL","LI7500","NF17">> >>,
                        << <<"DIAG","LI7500">>, <<"DIAG","LI7500","NF17">> >> >>)
           ELSE Maintenance
      [] site = "NF3" ->
           IF d < Day_2019_05_19 THEN
             MapRule(<< <<"PCELL","LI7500","NF3">>, <<"TCELL","LI7500","NF3">>,
                        <<"flag","CSAT3B","NF3">> >>,
                     << << <<"Ux","CSAT3B">>, <<"Ux","CSAT3B","NF3">> >>,
                        << <<"Uy","CSAT3B">>, <<"Uy","CSAT3B","NF3">> >>,
                        << <<"Uz","CSAT3B">>, <<"Uz","CSAT3B","NF3">> >>,
                        << <<"Ts","CSAT3B">>, <<"Ts","CSAT3B","NF3">> >>,
                        << <<"rho","c","LI7500">>, <<"CO2","LI7500","NF3">> >>,
                        << <<"rho","cv","LI7500">>, <<"H2O","LI7500","NF3">> >>,
                        << <<"DIAG","CSAT3B">>, <<"DIAG","CSAT3B","NF3">> >>,
                        << <<"DIAG","LI7500">>, <<"DIAG","LI7500","NF3">> >> >>)
           ELSE IF d > Day_2019_05_19 THEN
             MapRule(<< <<"DIAG","CSAT3B","NF3">>, <<"flag","CSAT3B","NF3">>,
                        <<"TCELL","LI7500","NF3">> >>,
                     << << <<"Ux","CSAT3B">>, <<"Ux","CSAT3B","NF3">> >>,
                        << <<"Uy","CSAT3B">>, <<"Uy","CSAT3B","NF3">> >>,
                        << <<"Uz","CSAT3B">>, <<"Uz","CSAT3B","NF3">> >>,
                        << <<"Ts","CSAT3B">>, <<"Ts","CSAT3B","NF3">> >>,
                        << <<"rho","c","LI7500">>, <<"CO2","LI7500","NF3">> >>,
                        << <<"rho","v","LI7500">>, <<"H2O","LI7500","NF3">> >>,
                        << <<"P","LI7500">>, <<"PCELL","LI7500","NF3">> >>,
                        << <<"DIAG","LI7500">>, <<"DIAG","LI7500","NF3">> >> >>)
           ELSE Maintenance
      [] site = "SF4" ->
           IF d < Day_2100_11_19 THEN
             MapRule(<< <<"flag","SON","SF4">> >>,
                     << << <<"Ux">>, <<"Ux","SON","SF4">> >>,
                        << <<"Uy">>, <<"Uy","SON","SF4">> >>,
                        << <<"Uz">>, <<"Uz","SON","SF4">> >>,
                        << <<"Ts">>, <<"Ts","SON","SF4">> >>,
                        << <<"diag","sonic">>, <<"DIAG","SON","SF4">> >>,
                        << <<"CO2">>, <<"CO2","IRGA","SF4">> >>,
                        << <<"H2O">>, <<"H2O","IRGA","SF4">> >>,
                        << <<"diag","irga">>, <<"DIAG","IRGA","SF4">> >>,
                        << <<"cell","tmpr">>, <<"TCELL","IRGA","SF4">> >>,
                        << <<"cell","press">>, <<"PCELL","IRGA","SF4">> >> >>)
           ELSE Unbound
      [] site = "SF7" ->
           IF d < Day_2019_05_19 THEN
             MapRule(<< <<"PCELL","LI7500","SF7">>, <<"TCELL","LI7500","SF7">>,
                        <<"flag","CSAT3B","SF7">> >>,
                     << << <<"Ux","CSAT3B">>, <<"Ux","CSAT3B","SF7">> >>,
                        << <<"Uy","CSAT3B">>, <<"Uy","CSAT3B","SF7">> >>,
                        << <<"Uz","CSAT3B">>, <<"Uz","CSAT3B","SF7">> >>,
                        << <<"Ts","CSAT3B">>, <<"Ts","CSAT3B","SF7">> >>,
                        << <<"rho","c","LI7500">>, <<"CO2","LI7500","SF7">> >>,
                        << <<"rho","v","LI7500">>, <<"H2O","LI7500","SF7">> >>,
                        << <<"DIAG","CSAT3B">>, <<"DIAG","CSAT3B","SF7">> >>,
                        << <<"DIAG","LI7500">>, <<"DIAG","LI7500","SF7">> >> >>)
           ELSE IF d > Day_2019_05_19 THEN
             MapRule(<< <<"DIAG","CSAT3B","SF7">>, <<"flag","CSAT3B","SF7">>,
                        <<"TCELL","LI7500","SF7">> >>,
                     << << <<"Ux","CSAT3B">>, <<"Ux","CSAT3B","SF7">> >>,
                        << <<"Uy","CSAT3B">>, <<"Uy","CSAT3B","SF7">> >>,
                        << <<"Uz","CSAT3B">>, <<"Uz","CSAT3B","SF7">> >>,
                        << <<"Ts","CSAT3B">>, <<"Ts","CSAT3B","SF7">> >>,
                        << <<"rho","c","LI7500">>, <<"CO2","LI7500","SF7">> >>,
                        << <<"rho","v","LI7500">>, <<"H2O","LI7500","SF7">> >>,
                        << <<"P","LI7500">>, <<"PCELL","LI7500","SF7">> >>,
                        << <<"DIAG","LI7500">>, <<"DIAG","LI7500","SF7">> >> >>)
           ELSE Maintenance
      [] site = "UF3" ->
           IF d > Day_2019_02_13 THEN
             MapRule(<< <<"flag","SON","UF3">> >>,
                     << << <<"Ux">>, <<"Ux","SON","UF3">> >>,
                        << <<"Uy">>, <<"Uy","SON","UF3">> >>,
                        << <<"Uz">>, <<"Uz","SON","UF3">> >>,
                        << <<"Ts">>, <<"Ts","SON","UF3">> >>,
                        << <<"diag","sonic">>, <<"DIAG","SON","UF3">> >>,
                        << <<"CO2">>, <<"CO2","IRGA","UF3">> >>,
                        << <<"H2O">>, <<"H2O","IRGA","UF3">> >>,
                        << <<"diag","irga">>, <<"DIAG","IRGA","UF3">> >>,
                        << <<"cell","tmpr">>, <<"TCELL","IRGA","UF3">> >>,
                        << <<"cell","press">>, <<"PCELL","IRGA","UF3">> >> >>)
           ELSE Unbound

\* df.rename(columns=renaming_dict): the new label of one column
Renamed(renaming_dict, name) ==
    IF \E i \in DOMAIN renaming_dict : renaming_dict[i][1] = name
    THEN renaming_dict[CHOOSE i \in DOMAIN renaming_dict : renaming_dict[i][1] = name][2]
    ELSE name

\* df[new_order]: every column labelled new_order[1], then every column
\* labelled new_order[2], ...; KeyError when a label is not in df
SelectColumns(df, new_order) ==
    IF \E k \in DOMAIN new_order : new_order[k] \notin Range(df.cols)
    THEN Raise("KeyError")
    ELSE LET src == Flatten([k \in DOMAIN new_order |-> Positions(df.cols, new_order[k])])
         IN  Ok(Project(df, [k \in DOMAIN src |-> df.cols[src[k]]], src))

\* df.rename(columns=renaming_dict)
Rename(df, renaming_dict) ==
    [df EXCEPT !.cols = [k \in DOMAIN df.cols |-> Renamed(renaming_dict, df.cols[k])]]

\* the rename and the selection, added being what the reindex returned
RenameAndSelect(site, rule, added) ==
    IF added.st # "ok" THEN added
    ELSE SelectColumns(Rename(added.df, rule.renaming_dict), final_headers[site])

\* reorder_headers once the if/elif chain has selected rule
ApplyRule(site, fts, df, rule) ==
    CASE rule.kind = "maintenance" -> Ok(make_empty(fts, site))
      [] rule.kind = "unbound" -> Raise("UnboundLocalError")
      [] OTHER -> RenameAndSelect(site, rule, Reindex(df, df.cols \o rule.cols_to_add))

\* reorder_headers(site, fts, df)
reorder_headers(site, fts, df) == ApplyRule(site, fts, df, HeaderRule(site, DateOf(fts)))

(***************************************************************************)
(* process_diagnostics                                                     *)
(***************************************************************************)
\* Character-level facts about the tokens that occur in column names: the
\* tokens that end with "DIAG", and those that start with "CSAT3B", "IRGA",
\* "SON".
EndsWithDIAG(tok) == tok \in {"DIAG"}
StartsWithCSAT3B(tok) == tok \in {"CSAT3B"}
StartsWithIRGA(tok) == tok \in {"IRGA"}
StartsWithSON(tok) == tok \in {"SON", "SONIC"}

\* re.search("DIAG_CSAT3_|DIAG_CSAT3B|DIAG_IRGA|DIAG_SON", colname) at the
\* token after position i: the text matched after "DIAG_", "" when none
MatchAt(colname, i) ==
    IF ~(i + 1 <= Len(colname) /\ EndsWithDIAG(colname[i])) THEN ""
    ELSE IF colname[i + 1] = "CSAT3" /\ i + 2 <= Len(colname) THEN "CSAT3_"
    ELSE IF StartsWithCSAT3B(colname[i + 1]) THEN "CSAT3B"
    ELSE IF StartsWithIRGA(colname[i + 1]) THEN "IRGA"
    ELSE IF StartsWithSON(colname[i + 1]) THEN "SON"
    ELSE ""

\* instr: the leftmost match with "DIAG_" cut off and 'CSAT3_' renamed,
\* "" when the column holds no diagnostics
DiagInstr(colname) ==
    LET hits == {i \in DOMAIN colname : MatchAt(colname, i) # ""}
        first == CHOOSE i \in hits : \A j \in hits : i <= j
    IN  IF hits = {} THEN ""
        ELSE IF MatchAt(colname, first) = "CSAT3_" THEN "CSAT3"
        ELSE MatchAt(colname, first)

\* x & y of two integers >= 0
RECURSIVE BitAnd(_, _)
BitAnd(x, y) ==
    IF x = 0 \/ y = 0 THEN 0
    ELSE (x % 2) * (y % 2) + 2 * BitAnd(x \div 2, y \div 2)

\* int(bool(v))
IntBool(v) == IF v # 0 THEN 1 ELSE 0

\* the mask 0b101011111 of the CSAT3B entry
Mask_CSAT3B == 351

\* a flag that is 1 for every integer but 0
diag_nonzero(instr, x) == IntBool(x)

\* the lambda of diag_dict[instr], applied to an integer x >= 0
diag_dict(instr, x) ==
    CASE instr = "CSAT3"  -> IntBool(x \div (2 ^ 12))            \* x >> 12
      [] instr = "CSAT3B" -> IntBool(BitAnd(x, Mask_CSAT3B))     \* x & 0b101011111
      [] instr = "IRGA"   -> IntBool(x)
      [] instr = "SON"    -> IntBool(x)

\* df.assign(**diag_dict[instr]): pandas calls the lambda with the frame, not
\* with the diagnostic column.  x >> 12 is not defined for a frame, x & mask
\* fails on the frame's TIMESTAMP and float columns, and the truth value of a
\* frame (bool(x)) raises: no entry of diag_dict returns.
AssignFlag(df, instr, site) ==
    CASE instr = "CSAT3"  -> Raise("TypeError")
      [] instr = "CSAT3B" -> Raise("TypeError")
      [] instr = "IRGA"   -> Raise("ValueError")
      [] instr = "SON"    -> Raise("ValueError")

\* the loop over the columns of the frame passed in, from column k on
RECURSIVE DiagLoop(_, _, _, _)
DiagLoop(df, columns, k, site) ==
    IF k > Len(columns) THEN Ok(df)
    ELSE LET instr == DiagInstr(columns[k])
             assigned == AssignFlag(df, instr, site)
         IN  IF instr = "" THEN DiagLoop(df, columns, k + 1, site)
             ELSE IF assigned.st # "ok" THEN assigned
             ELSE Raise("TypeError")   \* pd.DataFrame.assign() without self

\* process_diagnostics(df, site)
process_diagnostics(df, site) == DiagLoop(df, df.cols, 1, site)

(***************************************************************************)
(* Raw files.  A converted file is [tag, day, hh, mm, sep, body]: its name *)
(* is TOA5_<tag>Hz_<date of day>_<hh><mm>.dat, with a '_' between hh and   *)
(* mm when sep; body names what the file holds.                            *)
(***************************************************************************)
\* get_fn_from_timestamp's "return" without a value
None == [tag |-> "None", day |-> 0, hh |-> 0, mm |-> 0, sep |-> FALSE, body |-> "none"]

\* get_timestamp_from_fn(fn): the digits after 'Hz', separators removed,
\* read as %Y%m%d%H%M
get_timestamp_from_fn(fn) ==
    (fn.day - day0) * MsPerDay + (fn.hh * 60 + fn.mm) * MsPerMin

\* file_start_str in str(fn): the name holds yyyy_mm_dd_hhMM of the timestamp
NameHolds(fn, file_start_ts) ==
    /\ fn.day = DateOf(file_start_ts)
    /\ fn.hh = (file_start_ts % MsPerDay) \div (60 * MsPerMin)
    /\ fn.mm = ((file_start_ts % MsPerDay) \div MsPerMin) % 60
    /\ ~fn.sep

\* get_fn_from_timestamp(file_start_ts, site): the first file of
\* site_info[site]['fns'] whose name holds the timestamp, else None
get_fn_from_timestamp(file_start_ts, fns) ==
    LET hits == {i \in DOMAIN fns : NameHolds(fns[i], file_start_ts)}
    IN  IF hits = {} THEN None
        ELSE fns[CHOOSE i \in hits : \A j \in hits : i <= j]

\* pd.date_range(start_time, end_time, freq=f'{file_length} min')
desired_file_tss ==
    [k \in 1..((end_time - start_time) \div (file_length * MsPerMin) + 1) |->
        start_time + (k - 1) * file_length * MsPerMin]

\* find_fast_files, for one site whose directory lists the files glob
find_fast_files(glob) ==
    LET kept == SelectSeq(glob, LAMBDA fn : /\ get_timestamp_from_fn(fn) >= start_time
                                            /\ get_timestamp_from_fn(fn) <= end_time)
        file_tss == SortSeq([i \in DOMAIN kept |-> get_timestamp_from_fn(kept[i])],
                            LAMBDA a, b : a < b)
    IN  [fns |-> [i \in DOMAIN file_tss |-> get_fn_from_timestamp(file_tss[i], glob)],
         file_tss |-> file_tss,
         n_files_converted |-> Len(file_tss),
         fns_temp |-> <<>>,
         file_tss_temp |-> <<>>]

\* the names a rule renames, in the order of its renaming_dict
RenamedNames(rule) == [i \in DOMAIN rule.renaming_dict |-> rule.renaming_dict[i][1]]

\* rule, or the site's latest rule when rule maps nothing
RuleOrLatest(rule, site) ==
    IF rule.kind = "map" THEN rule ELSE HeaderRule(site, Day_2019_05_19 + 1)

\* The header line of a raw file of a site written on calendar day d: TIMESTAMP,
\* RECORD and the logger's column names of that period (the names the site's
\* rule renames; on a day without such a rule, those of the latest rule).
RawHeader(site, d) ==
    <<TIMESTAMP, RECORD>> \o RenamedNames(RuleOrLatest(HeaderRule(site, d), site))

\* The rows of a raw file, by its body:
\*   "minute": one minute of samples, one per acquisition period, all valued
\*   "short" : the first two samples only
\*   "nanux" : one minute of samples, the first measured column never valued
\*   "skew"  : one minute of samples, each 1 ms after its place on the grid
RawRows(fn, width) ==
    LET f == get_timestamp_from_fn(fn)
        all == 1..width
    IN  CASE fn.body = "minute" ->
               Fn([t \in {f + i * acq_period : i \in 1..(60 * acq_freq)} |-> <<all>>])
          [] fn.body = "short" ->
               Fn([t \in {f + i * acq_period : i \in 1..2} |-> <<all>>])
          [] fn.body = "nanux" ->
               Fn([t \in {f + i * acq_period : i \in 1..(60 * acq_freq)} |-> <<all \ {3}>>])
          [] fn.body = "skew" ->
               Fn([t \in {f + i * acq_period + 1 : i \in 1..(60 * acq_freq)} |-> <<all>>])

\* the frame of a raw file with the header line header
RawFrame(fn, header) == [cols |-> header, idx |-> FALSE, rows |-> RawRows(fn, Len(header))]

\* csv.read_csv(fn, ...).to_pandas() with TIMESTAMP parsed
ReadCsv(fn, site) == RawFrame(fn, RawHeader(site, fn.day))

\* a process_file that leaves the header as process_diagnostics returned it
Unstandardized(site, ts, flagged) == flagged

\* process_file after process_diagnostics returned flagged: reorder_headers
Standardized(site, ts, flagged) ==
    IF flagged.st # "ok" THEN flagged ELSE reorder_headers(site, ts, flagged.df)

\* ... after reorder_headers returned ordered: set_index('TIMESTAMP')
Indexed(ordered) ==
    IF ordered.st # "ok" THEN ordered ELSE SetIndexTimestamp(ordered.df)

\* ... after set_index returned indexed: the columns other than RECORD
WithoutRecord(indexed) ==
    IF indexed.st # "ok" THEN indexed ELSE Ok(DropColumn(indexed.df, RECORD))

\* process_file(fn, site, ts)
process_file(fn, site, ts) ==
    IF fn = None THEN Raise("TypeError")
    ELSE WithoutRecord(Indexed(Standardized(site, ts,
                          process_diagnostics(ReadCsv(fn, site), site))))

(***************************************************************************)
(* The merge onto the dense time axis                                      *)
(***************************************************************************)
\* the rows of a frame stamped t, none when it has no such row
RowsAt(df, t) == IF t \in DOMAIN df.rows THEN df.rows[t] ELSE <<>>

\* pd.concat([rawdat, rawdat_tmp]) of two frames with the same columns
Concat(a, b) ==
    [a EXCEPT !.rows = Fn([t \in DOMAIN a.rows \cup DOMAIN b.rows |->
                             RowsAt(a, t) \o RowsAt(b, t)])]

\* left.merge(right, how='outer', left_index=True, right_index=True, sort=True)
\* for frames with distinct column labels: per timestamp, every pairing of a
\* left row with a right row, or the rows of the one side that has the
\* timestamp with NaN in the columns of the other; timestamps ascending
merge(left, right) ==
    LET w == Len(left.cols)
        shifted(nm) == {w + c : c \in nm}
        joined(t) ==
          LET l == RowsAt(left, t)
              r == RowsAt(right, t)
          IN  IF r = <<>> THEN l
              ELSE IF l = <<>> THEN [x \in DOMAIN r |-> shifted(r[x])]
              ELSE [x \in 1..(Len(l) * Len(r)) |->
                      l[1 + ((x - 1) \div Len(r))] \cup shifted(r[1 + ((x - 1) % Len(r))])]
    IN  [cols |-> left.cols \o right.cols,
         idx  |-> TRUE,
         rows |-> Fn([t \in DOMAIN left.rows \cup DOMAIN right.rows |-> Sq(joined(t))])]

\* pd.date_range(dfts + acq_period, periods=n_records, freq=acq_period) as the
\* index of a frame without columns
desired_time_index(dfts) ==
    [cols |-> <<>>,
     idx  |-> TRUE,
     rows |-> Fn([t \in {dfts + i * acq_period : i \in 1..n_records} |-> << {} >>])]

(***************************************************************************)
(* process_interval                                                        *)
(***************************************************************************)
\* an `if` in the place of the while loop: one pop at most
PopsAtMostOne(file_tss_temp, next_file_ts) ==
    IF file_tss_temp # <<>> /\ file_tss_temp[1] < next_file_ts THEN 1 ELSE 0

\* the number of pops of the while loop: the entries at the front of the
\* queue that are earlier than next_file_ts
Pops(file_tss_temp, next_file_ts) ==
    CHOOSE k \in 0..Len(file_tss_temp) :
        /\ \A i \in 1..k : file_tss_temp[i] < next_file_ts
        /\ (k = Len(file_tss_temp) \/ ~(file_tss_temp[k + 1] < next_file_ts))

\* update_metadata(dfts, desired_fn, ts, fn, site, ifile), for the table and
\* the counter of the site.  bound says what the caller's name ifile is bound
\* to: "dict", or "None", for which ifile[site] raises TypeError.  The method
\* has no return statement: it returns None.
update_metadata(table, count, bound, dfts, ts, fn) ==
    IF bound = "None" THEN [st |-> "TypeError", table |-> table, count |-> count]
    ELSE IF count + 1 > Len(table) THEN [st |-> "IndexError", table |-> table, count |-> count]
    ELSE [st |-> "ok",
          table |-> [table EXCEPT ![count + 1] = [output_timestamp |-> dfts,
                                                  input_timestamp |-> ts,
                                                  input_name |-> fn]],
          count |-> count + 1]

\* one turn of the loop over the files popped for a site, got being what
\* process_file returned for file i; acc = [st, rawdat, count, table, bound]
OneFile(dfts, fn, ts, i, acc, got) ==
    LET rawdat == IF i = 1 THEN got.df ELSE Concat(acc.rawdat, got.df)
        meta == update_metadata(acc.table, acc.count, acc.bound, dfts, ts, fn)
    IN  IF got.st # "ok" THEN [acc EXCEPT !.st = got.st]
        ELSE IF meta.st # "ok" THEN [acc EXCEPT !.st = meta.st, !.rawdat = rawdat]
        ELSE [st |-> "ok", rawdat |-> rawdat, count |-> meta.count, table |-> meta.table,
              bound |-> "None"]   \* ifile = self.update_metadata(...)

\* the loop over the files popped for one site, from file i on
RECURSIVE FilesLoop(_, _, _, _, _, _)
FilesLoop(site, dfts, next_fns, next_file_tss, i, acc) ==
    IF i > Len(next_fns) \/ acc.st # "ok" THEN acc
    ELSE FilesLoop(site, dfts, next_fns, next_file_tss, i + 1,
                   OneFile(dfts, next_fns[i], next_file_tss[i], i, acc,
                           process_file(next_fns[i], site, next_file_tss[i])))

\* the end of a site's turn: files is what the loop over its k files left;
\* acc = [st, dat, site_info, ifile, bound, metadata, popped]
MergeSite(site, dfts, k, acc, files) ==
    LET acc2 == [acc EXCEPT !.ifile[site] = files.count,
                            !.metadata[site] = files.table,
                            !.bound = files.bound,
                            !.st = files.st]
    IN  IF files.st # "ok" THEN acc2
        ELSE [acc2 EXCEPT !.dat = merge(@, IF k = 0
                                           THEN DropColumn(make_empty(dfts, site), RECORD)
                                           ELSE files.rawdat)]

\* a turn of the loop over the sites in which fns_temp and file_tss_temp are
\* the lists fns and file_tss themselves, not copies of them
OneSiteAliased(i, dfts, site, acc) ==
    LET info == acc.site_info[site]
        next_file_ts == dfts + file_length * MsPerMin
        k == Pops(info.file_tss_temp, next_file_ts)
        next_fns == SubSeq(info.fns_temp, 1, k)
        next_file_tss == SubSeq(info.file_tss_temp, 1, k)
        info2 == [info EXCEPT
                    !.fns_temp = SubSeq(info.fns_temp, k + 1, Len(info.fns_temp)),
                    !.file_tss_temp = SubSeq(info.file_tss_temp, k + 1,
                                             Len(info.file_tss_temp)),
                    !.fns = SubSeq(info.fns_temp, k + 1, Len(info.fns_temp)),
                    !.file_tss = SubSeq(info.file_tss_temp, k + 1,
                                        Len(info.file_tss_temp))]
        pops == [x \in 1..k |-> [idfts |-> i, fn |-> next_fns[x], ts |-> next_file_tss[x]]]
    IN  MergeSite(site, dfts, k,
                  [acc EXCEPT !.site_info[site] = info2, !.popped[site] = @ \o pops],
                  FilesLoop(site, dfts, next_fns, next_file_tss, 1,
                            [st |-> "ok", rawdat |-> NoFrame, count |-> acc.ifile[site],
                             table |-> acc.metadata[site], bound |-> acc.bound]))

\* one turn of the loop over the sites
OneSite(i, dfts, site, acc) ==
    LET info == acc.site_info[site]
        next_file_ts == dfts + file_length * MsPerMin
        k == Pops(info.file_tss_temp, next_file_ts)
        next_fns == SubSeq(info.fns_temp, 1, k)
        next_file_tss == SubSeq(info.file_tss_temp, 1, k)
        info2 == [info EXCEPT
                    !.fns_temp = SubSeq(info.fns_temp, k + 1, Len(info.fns_temp)),
                    !.file_tss_temp = SubSeq(info.file_tss_temp, k + 1,
                                             Len(info.file_tss_temp))]
        pops == [x \in 1..k |-> [idfts |-> i, fn |-> next_fns[x], ts |-> next_file_tss[x]]]
    IN  MergeSite(site, dfts, k,
                  [acc EXCEPT !.site_info[site] = info2, !.popped[site] = @ \o pops],
                  FilesLoop(site, dfts, next_fns, next_file_tss, 1,
                            [st |-> "ok", rawdat |-> NoFrame, count |-> acc.ifile[site],
                             table |-> acc.metadata[site], bound |-> acc.bound]))

\* the loop over the sites, from site s of site_names on
RECURSIVE SitesLoop(_, _, _, _)
SitesLoop(i, dfts, s, acc) ==
    IF s > Len(site_names) \/ acc.st # "ok" THEN acc
    ELSE SitesLoop(i, dfts, s + 1, OneSite(i, dfts, site_names[s], acc))

\* process_interval(idfts, dfts, ifile) up to the merged frame; the caller
\* passes its dict
process_interval(i, dfts) ==
    SitesLoop(i, dfts, 1,
              [st |-> "ok", dat |-> desired_time_index(dfts), site_info |-> site_info,
               ifile |-> ifile, bound |-> "dict", metadata |-> metadata,
               popped |-> popped])

\* the table handed to csv.write_csv: dat[dat.columns[1:]], without the index
WrittenTable(i, frame) ==
    [idfts |-> i, columns |-> Tail(frame.cols), nrows |-> NRows(frame)]

(***************************************************************************)
(* update_summary                                                          *)
(***************************************************************************)
\* summary_cols of process_fast_files
summary_cols == {"Ux", "Uy", "Uz", "Ts", "CO2", "H2O", "PCELL", "TCELL", "flag"}

\* summary_sites of process_fast_files: the sites, and NF7 beside NF17
summary_sites == Range(site_names) \cup (IF "NF17" \in Range(site_names) THEN {"NF7"} ELSE {})

\* colname[0]: the first character of a name, by its first token
FirstChar(tok) ==
    CASE tok \in {"Ux", "Uy", "Uz"} -> "U"
      [] tok \in {"Ts", "TCELL", "TIMESTAMP"} -> "T"
      [] tok \in {"CO2"} -> "C"
      [] tok \in {"H2O"} -> "H"
      [] tok \in {"PCELL", "P"} -> "P"
      [] tok \in {"DIAG"} -> "D"
      [] tok \in {"RECORD"} -> "R"
      [] tok \in {"flag"} -> "f"
      [] tok \in {"rho"} -> "r"
      [] tok \in {"diag"} -> "d"
      [] tok \in {"cell"} -> "c"
      [] OTHER -> "?"

\* an accumulator cell: Avg, Max, Min, Std are "nan" or "num" (a number, its
\* value not modelled); Npc is the fraction num/den, or NaN
NaN == [nan |-> TRUE, num |-> 0, den |-> 1]
EmptyCell == [Avg |-> "nan", Max |-> "nan", Min |-> "nan", Std |-> "nan", Npc |-> NaN]

\* np.nansum(0*dat[colname] + 1): the rows of column c that hold a value
Valued(frame, c) ==
    Cardinality(UNION {{<<t, x>> : x \in {y \in DOMAIN frame.rows[t] : c \in frame.rows[t][y]}} :
                         t \in DOMAIN frame.rows})

\* the five statistics of column c: np.nanmean, nanmax, nanmin, nanstd are
\* nan for a column without a value; Npc = 100 - 100*valued/n_records
Stats(frame, c) ==
    LET some == IF Valued(frame, c) = 0 THEN "nan" ELSE "num"
    IN  [Avg |-> some, Max |-> some, Min |-> some, Std |-> some,
         Npc |-> [nan |-> FALSE,
                  num |-> 100 * n_records - 100 * Valued(frame, c),
                  den |-> n_records]]

\* whether update_summary takes column colname
Summarized(colname) == FirstChar(colname[1]) \in {"U", "T", "C", "H", "P", "F"}

\* the loop of update_summary over the columns of dat, from column c on;
\* arr is summary_arr[idfts]
RECURSIVE SummaryLoop(_, _, _)
SummaryLoop(frame, arr, c) ==
    IF c > Len(frame.cols) THEN [st |-> "ok", arr |-> arr]
    ELSE LET colname == frame.cols[c]
             site == colname[Len(colname)]
             col_id == colname[1]
         IN  IF ~Summarized(colname) THEN SummaryLoop(frame, arr, c + 1)
             ELSE IF site \notin summary_sites \/ col_id \notin summary_cols
                  THEN [st |-> "KeyError", arr |-> arr]
             ELSE SummaryLoop(frame, [arr EXCEPT ![<<site, col_id>>] = Stats(frame, c)], c + 1)

\* update_summary(dat, summary_arr, summary_cols, summary_sites, idfts, site)
update_summary(frame, i) == SummaryLoop(frame, summary_arr[i], 1)

(***************************************************************************)
(* The runs explored                                                       *)
(***************************************************************************)
\* the most files in the converted directories of a run, all sites together
MaxFiles == 2
\* a run starts at 23:58 of day0 and ends 0, 1, ... minutes later
StartOfRun == (23 * 60 + 58) * MsPerMin
RunSpans == {0, 1, 2, 3}
RunDays == {Day_2019_05_19 - 1}
RunSiteLists == {<<"SF4">>, <<"NF17", "SF4">>}
\* (file_length, acq_freq)
RunConfigs == {<<1, 1>>, <<2, 1>>}
\* the 5-minute, 10 Hz intervals of the SF4-only scenario
ScenarioConfig == <<5, 10>>

\* the converted file named after timestamp t, holding body
FileNamed(t, sep, body) ==
    [tag |-> "a", day |-> DateOf(t), hh |-> (t % MsPerDay) \div (60 * MsPerMin),
     mm |-> ((t % MsPerDay) \div MsPerMin) % 60, sep |-> sep, body |-> body]

\* the files a directory may hold: short files named for any minute from one
\* before the run to one after its longest window, and files of every other
\* body named for the first minute
CandidateFiles ==
    {FileNamed(StartOfRun + o * MsPerMin, FALSE, "short") : o \in -1..4}
    \cup {FileNamed(StartOfRun, FALSE, b) : b \in {"minute", "nanux", "skew"}}

\* the sequences of at most n members of S
RECURSIVE Listings(_, _)
Listings(S, n) ==
    IF n = 0 THEN {<<>>}
    ELSE LET shorter == Listings(S, n - 1)
         IN  shorter \cup {Append(l, x) : l \in shorter, x \in S}

RECURSIVE TotalFiles(_, _)
TotalFiles(dirs, names) ==
    IF names = <<>> THEN 0 ELSE Len(dirs[Head(names)]) + TotalFiles(dirs, Tail(names))

\* two files of one name
SameName(a, b) ==
    a.tag = b.tag /\ a.day = b.day /\ a.hh = b.hh /\ a.mm = b.mm /\ a.sep = b.sep

\* the directory contents of the sites names: at most n files in all, no
\* name twice in a directory
Directories(names, n) ==
    {dirs \in [Range(names) -> {l \in Listings(CandidateFiles, n) :
                                  \A i, j \in DOMAIN l : SameName(l[i], l[j]) => i = j}] :
        TotalFiles(dirs, names) <= n}

\* values of the variables a specification does not use
Idle == [st |-> "idle", df |-> NoFrame]

RunIdle ==
    /\ converted = <<>> /\ site_info = <<>> /\ ifile = <<>> /\ metadata = <<>>
    /\ idfts = 0 /\ dat = NoFrame /\ written = <<>> /\ summary_arr = <<>>
    /\ popped = <<>> /\ pc = "idle"

HarmIdle == hsite = "SF4" /\ hfts = 0 /\ hdf = NoFrame /\ hout = Idle /\ hhout = Idle

DiagIdle ==
    /\ dsite = "SF4" /\ ddf = NoFrame /\ dout = Idle /\ ddout = Idle
    /\ dinstr = "SON" /\ dx = 0 /\ dflag = -1

(***************************************************************************)
(* process_fast_files                                                      *)
(***************************************************************************)
\* the engine as constructed, before process_fast_files
Init ==
    /\ start_time = StartOfRun
    /\ \/ /\ day0 \in RunDays
          /\ site_names \in RunSiteLists
          /\ \E c \in RunConfigs : file_length = c[1] /\ acq_freq = c[2]
          /\ end_time \in {StartOfRun + m * MsPerMin : m \in RunSpans}
          /\ converted \in Directories(site_names, MaxFiles)
       \/ /\ day0 \in RunDays
          /\ site_names = <<"SF4">>
          /\ file_length = ScenarioConfig[1] /\ acq_freq = ScenarioConfig[2]
          /\ end_time = StartOfRun
          /\ converted \in Directories(site_names, 1)
       \/ /\ day0 = Day_2019_02_13      \* UF3 across the night its rule begins
          /\ site_names = <<"UF3">>
          /\ file_length = 1 /\ acq_freq = 1
          /\ end_time \in {StartOfRun + m * MsPerMin : m \in RunSpans}
          /\ converted \in Directories(site_names, MaxFiles)
    /\ site_info = [site \in Range(site_names) |->
                      [fns |-> <<>>, file_tss |-> <<>>, n_files_converted |-> 0,
                       fns_temp |-> <<>>, file_tss_temp |-> <<>>]]
    /\ ifile = [site \in Range(site_names) |-> 0]
    /\ metadata = [site \in Range(site_names) |-> <<>>]
    /\ idfts = 0
    /\ dat = NoFrame
    /\ written = <<>>
    /\ summary_arr = <<>>
    /\ popped = [site \in Range(site_names) |-> <<>>]
    /\ pc = "start"
    /\ HarmIdle
    /\ DiagIdle

\* metadata_template: a row of 'none' per file found
NoneRow == [output_timestamp |-> -1, input_timestamp |-> -1, input_name |-> None]

\* process_fast_files up to its loop: find_fast_files, the summary and
\* metadata templates, ifile, and the copies the loop pops from
Start ==
    /\ pc = "start"
    /\ LET found == [site \in Range(site_names) |-> find_fast_files(converted[site])]
       IN  /\ site_info' = [site \in Range(site_names) |->
                              [found[site] EXCEPT !.fns_temp = found[site].fns,
                                                  !.file_tss_temp = found[site].file_tss]]
           /\ metadata' = [site \in Range(site_names) |->
                             [r \in 1..found[site].n_files_converted |-> NoneRow]]
    /\ summary_arr' = [i \in 0..(Len(desired_file_tss) - 1) |->
                         [cell \in summary_sites \X summary_cols |-> EmptyCell]]
    /\ ifile' = [site \in Range(site_names) |-> 0]
    /\ idfts' = 0
    /\ pc' = "interval"
    /\ UNCHANGED <<cfgvars, converted, dat, written, popped, hvars, dvars>>

\* what process_interval leaves behind, got being its outcome
Returned(got) ==
    /\ site_info' = got.site_info
    /\ ifile' = got.ifile
    /\ metadata' = got.metadata
    /\ popped' = got.popped
    /\ IF got.st = "ok"
       THEN /\ dat' = got.dat
            /\ written' = Append(written, WrittenTable(idfts, got.dat))
            /\ pc' = "summary"
       ELSE /\ pc' = got.st
            /\ UNCHANGED <<dat, written>>

\* dat = self.process_interval(idfts, dfts, ifile), the table written included
ProcessInterval ==
    /\ pc = "interval"
    /\ Returned(process_interval(idfts, desired_file_tss[idfts + 1]))
    /\ UNCHANGED <<cfgvars, converted, idfts, summary_arr, hvars, dvars>>

\* an update_summary whose statistics land in the cells of every interval
StoredEverywhere(got) ==
    /\ summary_arr' = [j \in DOMAIN summary_arr |-> got.arr]
    /\ pc' = IF got.st # "ok" THEN got.st
             ELSE IF idfts + 1 < Len(desired_file_tss) THEN "interval"
             ELSE "done"

\* what update_summary leaves behind, got being its outcome
Stored(got) ==
    /\ summary_arr' = [summary_arr EXCEPT ![idfts] = got.arr]
    /\ pc' = IF got.st # "ok" THEN got.st
             ELSE IF idfts + 1 < Len(desired_file_tss) THEN "interval"
             ELSE "done"

\* summary_arr = self.update_summary(dat, ...), and the loop's next turn
UpdateSummary ==
    /\ pc = "summary"
    /\ Stored(update_summary(dat, idfts))
    /\ idfts' = idfts + 1
    /\ UNCHANGED <<cfgvars, converted, site_info, ifile, metadata, dat, written,
                   popped, hvars, dvars>>

Next == Start \/ ProcessInterval \/ UpdateSummary

Spec == Init /\ [][Next]_vars

(***************************************************************************)
(* reorder_headers on its own: one frame of a site, harmonized, and the    *)
(* result harmonized again                                                 *)
(***************************************************************************)
\* the days around each date a rule is keyed on
HarmDays ==
    {Day_2019_02_13 - 1, Day_2019_02_13, Day_2019_02_13 + 1,
     Day_2019_05_19 - 1, Day_2019_05_19, Day_2019_05_19 + 1,
     Day_2100_11_19 - 1, Day_2100_11_19}

\* s without its k-th member
Without(s, k) == SubSeq(s, 1, k - 1) \o SubSeq(s, k + 1, Len(s))

\* a column no rule knows
Unexpected == <<"batt","volt">>

\* the column lists handed to reorder_headers: the logger's header of the
\* day, that header short of one column or with one more, the site's
\* canonical header, and that header short of one column
HarmHeaders(site, d) ==
    LET raw == RawHeader(site, d)
        canonical == final_headers[site]
    IN  {raw, raw \o <<Unexpected>>, canonical}
        \cup {Without(raw, k) : k \in DOMAIN raw}
        \cup {Without(canonical, k) : k \in DOMAIN canonical}

\* a frame of two rows, every column valued
TwoRows(cols, fts) ==
    [cols |-> cols,
     idx  |-> FALSE,
     rows |-> GroupRows(<< [ts |-> fts + acq_period, nm |-> DOMAIN cols],
                           [ts |-> fts + 2 * acq_period, nm |-> DOMAIN cols] >>)]

InitHarm ==
    /\ day0 \in HarmDays
    /\ hsite \in Sites
    /\ site_names = <<hsite>>
    /\ acq_freq = 10 /\ file_length = 1
    /\ start_time = 0 /\ end_time = 0
    /\ hfts \in {0, 12 * 60 * MsPerMin}
    /\ hdf \in {TwoRows(cols, hfts) : cols \in HarmHeaders(hsite, day0)}
    /\ hout = Idle /\ hhout = Idle
    /\ RunIdle
    /\ DiagIdle

\* hout = reorder_headers(hsite, hfts, hdf)
Harmonize ==
    /\ hout = Idle
    /\ hout' = reorder_headers(hsite, hfts, hdf)
    /\ UNCHANGED <<cfgvars, runvars, hsite, hfts, hdf, hhout, dvars>>

\* hhout = reorder_headers(hsite, hfts, hout)
HarmonizeAgain ==
    /\ hout.st = "ok" /\ hhout = Idle
    /\ hhout' = reorder_headers(hsite, hfts, hout.df)
    /\ UNCHANGED <<cfgvars, runvars, hsite, hfts, hdf, hout, dvars>>

NextHarm == Harmonize \/ HarmonizeAgain

SpecHarm == InitHarm /\ [][NextHarm]_vars

(***************************************************************************)
(* process_diagnostics on its own: one frame, decoded, and the result      *)
(* decoded again                                                           *)
(***************************************************************************)
\* the most columns of a frame handed to process_diagnostics
MaxDiagCols == 2

\* the column names those frames draw on
DiagNames ==
    {TIMESTAMP, <<"Ux","CSAT3","NF17">>, <<"DIAG","CSAT3","NF17">>,
     <<"DIAG","CSAT3B","NF3">>, <<"DIAG","IRGA","SF4">>, <<"DIAG","SON","SF4">>,
     <<"DIAG","LI7500","NF17">>, <<"diag","sonic">>, <<"DIAG","CSAT3">>,
     <<"flag","SON","SF4">>}

InitDiag ==
    /\ day0 = Day_2019_05_19 + 1
    /\ dsite \in Sites
    /\ site_names = <<dsite>>
    /\ acq_freq = 10 /\ file_length = 1
    /\ start_time = 0 /\ end_time = 0
    /\ ddf \in {TwoRows(cols, 0) : cols \in {l \in Listings(DiagNames, MaxDiagCols) : IsUnique(l)}}
    /\ dout = Idle /\ ddout = Idle
    /\ dinstr = "SON" /\ dx = 0 /\ dflag = -1
    /\ RunIdle
    /\ HarmIdle

\* dout = process_diagnostics(ddf, dsite)
Decode ==
    /\ dout = Idle
    /\ dout' = process_diagnostics(ddf, dsite)
    /\ UNCHANGED <<cfgvars, runvars, hvars, dsite, ddf, ddout, dinstr, dx, dflag>>

\* ddout = process_diagnostics(dout, dsite)
DecodeAgain ==
    /\ dout.st = "ok" /\ ddout = Idle
    /\ ddout' = process_diagnostics(dout.df, dsite)
    /\ UNCHANGED <<cfgvars, runvars, hvars, dsite, ddf, dout, dinstr, dx, dflag>>

NextDiag == Decode \/ DecodeAgain

SpecDiag == InitDiag /\ [][NextDiag]_vars

(***************************************************************************)
(* find_fast_files on its own: the index of one site's directory, whose    *)
(* names may be of both forms, ..._hhMM.dat and ..._hh_MM.dat, and of two  *)
(* prefixes                                                                *)
(***************************************************************************)
\* a directory lists at most this many files
MaxGlob == 3

\* the file names of a directory: one for any minute from one before the run
\* to one after its longest window, and for the first two minutes also the
\* name with hh_MM and the name with another prefix
GlobFiles ==
    {FileNamed(StartOfRun + o * MsPerMin, FALSE, "short") : o \in -1..4}
    \cup {FileNamed(StartOfRun + o * MsPerMin, TRUE, "short") : o \in 0..1}
    \cup {[FileNamed(StartOfRun + o * MsPerMin, FALSE, "short") EXCEPT !.tag = "b"] : o \in 0..1}

InitIndex ==
    /\ day0 \in RunDays
    /\ start_time = StartOfRun
    /\ site_names = <<"SF4">>
    /\ file_length = 1 /\ acq_freq = 1
    /\ end_time \in {StartOfRun + m * MsPerMin : m \in RunSpans}
    /\ converted \in [{"SF4"} -> {l \in Listings(GlobFiles, MaxGlob) :
                                    \A i, j \in DOMAIN l : SameName(l[i], l[j]) => i = j}]
    /\ site_info = [site \in Range(site_names) |->
                      [fns |-> <<>>, file_tss |-> <<>>, n_files_converted |-> 0,
                       fns_temp |-> <<>>, file_tss_temp |-> <<>>]]
    /\ ifile = [site \in Range(site_names) |-> 0]
    /\ metadata = [site \in Range(site_names) |-> <<>>]
    /\ idfts = 0
    /\ dat = NoFrame
    /\ written = <<>>
    /\ summary_arr = <<>>
    /\ popped = [site \in Range(site_names) |-> <<>>]
    /\ pc = "start"
    /\ HarmIdle
    /\ DiagIdle

NextIndex == Start

SpecIndex == InitIndex /\ [][NextIndex]_vars

\* file fn of the directory is named for a timestamp of the closed window
InWindow(fn) ==
    get_timestamp_from_fn(fn) >= start_time /\ get_timestamp_from_fn(fn) <= end_time

\* C13: after find_fast_files the file_tss of a site are sorted ascending
\* and are exactly the timestamps of the directory's files that lie in
\* [start_time, end_time], each as often as files are named for it, and fns
\* has the same length, fns[i] being a file of the directory whose name
\* yields file_tss[i].
C13_IndexSortedAndPaired ==
    pc # "start" =>
      \A site \in Range(site_names) :
         LET info == site_info[site]
             glob == converted[site]
         IN  /\ \A x, y \in DOMAIN info.file_tss : x <= y => info.file_tss[x] <= info.file_tss[y]
             /\ \A x \in DOMAIN info.file_tss :
                    Cardinality({y \in DOMAIN info.file_tss : info.file_tss[y] = info.file_tss[x]})
                      = Cardinality({i \in DOMAIN glob :
                                       get_timestamp_from_fn(glob[i]) = info.file_tss[x]})
             /\ \A i \in DOMAIN glob :
                    InWindow(glob[i]) <=> get_timestamp_from_fn(glob[i]) \in Range(info.file_tss)
             /\ Len(info.fns) = Len(info.file_tss)
             /\ \A x \in DOMAIN info.fns :
                    /\ info.fns[x] \in Range(glob)
                    /\ get_timestamp_from_fn(info.fns[x]) = info.file_tss[x]

\* C18: for every file fn of a site's directory whose name parses, the file
\* found for the timestamp parsed from its name is fn itself:
\* get_fn_from_timestamp(get_timestamp_from_fn(fn), site) = fn, neither None
\* nor another file.
C18_RoundTrip ==
    \A site \in Range(site_names) :
       \A i \in DOMAIN converted[site] :
          get_fn_from_timestamp(get_timestamp_from_fn(converted[site][i]), converted[site])
            = converted[site][i]

(***************************************************************************)
(* The dense time axis on its own: the axis of one interval, for the       *)
(* acquisition frequencies and interval lengths the constructor accepts    *)
(***************************************************************************)
\* acq_freq is at most this many Hz
MaxFreq == 12
\* file_length is at most this many minutes
MaxLength == 3

InitAxis ==
    /\ day0 \in RunDays
    /\ site_names = <<"SF4">>
    /\ acq_freq \in 1..MaxFreq
    /\ file_length \in 1..MaxLength
    /\ start_time \in {0, StartOfRun}
    /\ end_time = start_time
    /\ converted = <<>> /\ site_info = <<>> /\ ifile = <<>> /\ metadata = <<>>
    /\ idfts = 0 /\ dat = NoFrame /\ written = <<>> /\ summary_arr = <<>>
    /\ popped = <<>>
    /\ pc = "axis"
    /\ HarmIdle
    /\ DiagIdle

\* dat = the frame indexed by desired_time_index, for dfts = start_time
BuildAxis ==
    /\ pc = "axis"
    /\ dat' = desired_time_index(desired_file_tss[1])
    /\ pc' = "built"
    /\ UNCHANGED <<cfgvars, converted, site_info, ifile, metadata, idfts, written,
                   summary_arr, popped, hvars, dvars>>

NextAxis == BuildAxis

SpecAxis == InitAxis /\ [][NextAxis]_vars

\* C20: the dense axis of the interval starting at t has n_records distinct
\* timestamps, the first at t + acq_period, each acq_period after the one
\* before, and the last exactly at t + file_length minutes, so that the axis
\* of the next interval follows without overlap and without gap.
C20_AxisTiles ==
    pc = "built" =>
      LET stamps == DOMAIN dat.rows
          last == start_time + file_length * MsPerMin
      IN  /\ Cardinality(stamps) = n_records
          /\ \A t \in stamps : t = start_time + acq_period \/ t - acq_period \in stamps
          /\ last \in stamps
          /\ \A t \in stamps : t <= last

(***************************************************************************)
(* The lambdas of diag_dict on their own: one raw diagnostic integer of    *)
(* one instrument family                                                   *)
(***************************************************************************)
\* the raw diagnostic integers have this many bits
DiagBits == 14

InitFlag ==
    /\ day0 = Day_2019_05_19 + 1
    /\ site_names = <<"SF4">>
    /\ acq_freq = 10 /\ file_length = 1
    /\ start_time = 0 /\ end_time = 0
    /\ dsite = "SF4" /\ ddf = NoFrame /\ dout = Idle /\ ddout = Idle
    /\ dinstr \in {"CSAT3", "CSAT3B", "IRGA", "SON"}
    /\ dx \in 0..(2 ^ DiagBits - 1)
    /\ dflag = -1
    /\ RunIdle
    /\ HarmIdle

\* dflag = diag_dict[dinstr][flag](dx)
Flag ==
    /\ dflag = -1
    /\ dflag' = diag_dict(dinstr, dx)
    /\ UNCHANGED <<cfgvars, runvars, hvars, dsite, ddf, dout, ddout, dinstr, dx>>

NextFlag == Flag

SpecFlag == InitFlag /\ [][NextFlag]_vars

\* bit k of x
Bit(x, k) == (x \div (2 ^ k)) % 2

\* the bits of 0b101011111
MaskBits == {0, 1, 2, 3, 4, 6, 8}

IndexEntries(site) ==
    [x \in DOMAIN site_info[site].file_tss |->
        [fn |-> site_info[site].fns[x], ts |-> site_info[site].file_tss[x]]]

\* those of them whose timestamp lies in interval i: [t, t + d)
WindowEntries(site, i) ==
    SelectSeq(IndexEntries(site),
              LAMBDA e : /\ desired_file_tss[i + 1] <= e.ts
                         /\ e.ts < desired_file_tss[i + 1] + file_length * MsPerMin)

\* the (file, timestamp) pairs popped for a site, in pop order
PoppedEntries(site) ==
    [x \in DOMAIN popped[site] |-> [fn |-> popped[site][x].fn, ts |-> popped[site][x].ts]]

\* those popped in interval i
Collected(site, i) ==
    LET mine == SelectSeq(popped[site], LAMBDA p : p.idfts = i)
    IN  [x \in DOMAIN mine |-> [fn |-> mine[x].fn, ts |-> mine[x].ts]]

\* the (file, timestamp) pairs still queued for a site
QueuedEntries(site) ==
    [x \in DOMAIN site_info[site].file_tss_temp |->
        [fn |-> site_info[site].fns_temp[x], ts |-> site_info[site].file_tss_temp[x]]]

\* interval idfts - 1 has been merged and summarized, and dat is its frame
JustSummarized == pc \in {"interval", "done"} /\ idfts >= 1

\* the canonical columns of a site that are not row identifiers
ValueColumns(site) == SelectSeq(final_headers[site], LAMBDA c : c \notin {TIMESTAMP, RECORD})

\* the site labels that end the column names of a site
SiteLabels(site) == IF site = "NF17" THEN {"NF17", "NF7"} ELSE {site}

\* the accumulator cell update_summary addresses for column c of dat
CellOf(i, c) == summary_arr[i][<<dat.cols[c][Len(dat.cols[c])], dat.cols[c][1]>>]

\* C1: the merged frame returned by process_interval has exactly n_records
\* rows, whatever raw files were found.
C1_RowCount == pc = "summary" => NRows(dat) = n_records

\* C1: an interval without any file, at 1 Hz: the frame has a row more.
C1_Witness == pc = "summary" /\ NRows(dat) = n_records + 1 /\ \A site \in Range(site_names) : popped[site] = <<>>

\* C2: every file of a site's index is popped in exactly one interval: the
\* files popped so far followed by the files still queued are the index, file
\* by file, the intervals of the pops never go back, and no file is queued
\* when the last interval has been processed.
C2_PoppedOnce ==
    pc # "start" =>
      \A site \in Range(site_names) :
        /\ PoppedEntries(site) \o QueuedEntries(site) = IndexEntries(site)
        /\ \A x, y \in DOMAIN popped[site] :
              x <= y => popped[site][x].idfts <= popped[site][y].idfts
        /\ \A x \in DOMAIN popped[site] : popped[site][x].idfts \in 0..idfts
        /\ pc = "done" => QueuedEntries(site) = <<>>

\* C2: a finished run that popped two files of a site in different intervals.
C2_Witness ==
    /\ pc = "done"
    /\ \E site \in Range(site_names) :
          /\ Len(popped[site]) >= 2
          /\ popped[site][1].idfts < popped[site][2].idfts

C6_WrittenColumns ==
    \A k \in DOMAIN written :
       written[k].columns = Flatten([s \in DOMAIN site_names |-> ValueColumns(site_names[s])])

\* C7: a site without a file in an interval contributes the placeholder: the
\* merged frame has n_records rows, every column of the site is missing in
\* every row, and the summary holds Npc = 100 for every variable of the site.
C7_Placeholder ==
    JustSummarized =>
      \A site \in Range(site_names) :
         Collected(site, idfts - 1) = <<>> =>
           /\ NRows(dat) = n_records
           /\ \A c \in DOMAIN dat.cols :
                 dat.cols[c][Len(dat.cols[c])] \in SiteLabels(site) => Valued(dat, c) = 0
           /\ \A v \in summary_cols :
                 /\ ~summary_arr[idfts - 1][<<site, v>>].Npc.nan
                 /\ summary_arr[idfts - 1][<<site, v>>].Npc.num =
                       100 * summary_arr[idfts - 1][<<site, v>>].Npc.den

\* C8: for every summarized column, Npc is 100 exactly when every value of
\* the column in the merged frame is missing, 0 exactly when none is, and it
\* lies in [0, 100].
C8_NpcMeaning ==
    JustSummarized =>
      \A c \in DOMAIN dat.cols :
         Summarized(dat.cols[c]) =>
           /\ ~CellOf(idfts - 1, c).Npc.nan
           /\ CellOf(idfts - 1, c).Npc.num = 100 * CellOf(idfts - 1, c).Npc.den
                 <=> Valued(dat, c) = 0
           /\ CellOf(idfts - 1, c).Npc.num = 0 <=> Valued(dat, c) = NRows(dat)
           /\ CellOf(idfts - 1, c).Npc.num \in 0..(100 * CellOf(idfts - 1, c).Npc.den)

\* C9: after an interval is summarized, the cell of every column of the merged
\* frame whose name begins with Ux, Uy, Uz, Ts, CO2, H2O, PCELL, TCELL or flag
\* has been written.
C9_EveryPrefixWritten ==
    JustSummarized =>
      \A c \in DOMAIN dat.cols :
         dat.cols[c][1] \in summary_cols => ~CellOf(idfts - 1, c).Npc.nan

(***************************************************************************)
(* Properties of reorder_headers                                           *)
(***************************************************************************)
\* C4: for every site and every input column set, reorder_headers returns,
\* without raising, a frame whose columns are the site's canonical header in
\* canonical order.
C4_CanonicalHeader ==
    hout # Idle => hout.st = "ok" /\ hout.df.cols = final_headers[hsite]

\* C5: on a frame whose columns are already the canonical header, on a date
\* that selects a rule, reorder_headers returns the same column list.
C5_Idempotent ==
    (/\ hout # Idle
     /\ hdf.cols = final_headers[hsite]
     /\ HeaderRule(hsite, DateOf(hfts)).kind = "map")
    => hout.st = "ok" /\ hout.df.cols = hdf.cols

(***************************************************************************)
(* Properties of process_diagnostics                                       *)
(***************************************************************************)
\* the flag columns the diagnostic columns of a frame call for
FlagsFor(cols, site) ==
    {<<"flag", DiagInstr(cols[k]), site>> : k \in {j \in DOMAIN cols : DiagInstr(cols[j]) # ""}}

\* C10: process_diagnostics returns the frame with one flag column added per
\* instrument family of a matched diagnostic column, every column it had
\* unchanged; decoding the result again yields the same column list.
C10_OneFlagPerFamily ==
    /\ dout # Idle =>
         /\ dout.st = "ok"
         /\ Len(dout.df.cols) >= Len(ddf.cols)
         /\ SubSeq(dout.df.cols, 1, Len(ddf.cols)) = ddf.cols
         /\ Range(dout.df.cols) = Range(ddf.cols) \cup FlagsFor(ddf.cols, dsite)
         /\ IsUnique(dout.df.cols)
         /\ Project(dout.df, ddf.cols, [k \in DOMAIN ddf.cols |-> k]) = ddf
    /\ ddout # Idle => ddout.st = "ok" /\ ddout.df.cols = dout.df.cols

\* an output table has been written for interval i
IntervalWritten(i) == \E k \in DOMAIN written : written[k].idfts = i

\* the reference date of a file selects the maintenance rule of its site
OnMaintenanceDay(site, ts) == HeaderRule(site, DateOf(ts)).kind = "maintenance"

\* C12: a file dated on the boundary date of its site (2019-05-19 for NF17,
\* NF3, SF7) falls under the maintenance rule: the site contributes the
\* placeholder and the interval is processed to completion, so an interval
\* that consumed such a file has its output table written.
C12_MaintenanceCompletes ==
    \A site \in Range(site_names) :
       \A x \in DOMAIN popped[site] :
          OnMaintenanceDay(site, popped[site][x].ts) => IntervalWritten(popped[site][x].idfts)

\* the metadata record of the x-th file popped for a site
RecordOf(site, x) ==
    [output_timestamp |-> desired_file_tss[popped[site][x].idfts + 1],
     input_timestamp |-> popped[site][x].ts,
     input_name |-> popped[site][x].fn]

WithoutRule(site, ts) == HeaderRule(site, DateOf(ts)).kind = "unbound"

\* C15: when the date of a consumed file has no rule for its site (UF3 on
\* or before 2019-02-13, SF4 on or after 2100-11-19), the run halts with an
\* error in the interval that consumed the file, and no output table is
\* written for that interval.
C15_NoRuleHalts ==
    \A site \in Range(site_names) :
       \A x \in DOMAIN popped[site] :
          WithoutRule(site, popped[site][x].ts) =>
             /\ pc \notin {"start", "interval", "summary", "done"}
             /\ idfts = popped[site][x].idfts
             /\ ~IntervalWritten(idfts)

\* C15: a run halted with UnboundLocalError in its second interval, after a
\* UF3 file of 2019-02-13 was consumed there.
C15_Witness ==
    /\ pc = "UnboundLocalError"
    /\ idfts = 1
    /\ \E x \in DOMAIN popped["UF3"] :
          popped["UF3"][x].idfts = 1 /\ WithoutRule("UF3", popped["UF3"][x].ts)

\* the accumulator cell that column c of dat is summarized into
CellKey(c) == <<dat.cols[c][Len(dat.cols[c])], dat.cols[c][1]>>

\* all cells of interval j are as the template left them
Untouched(j) == \A cell \in DOMAIN summary_arr[j] : summary_arr[j][cell] = EmptyCell

\* C16: each accumulator cell is written at most once, and only while its
\* own interval is summarized: the cells of an interval not yet summarized
\* are untouched, no two summarized columns of the merged frame address the
\* same (site, variable) cell, and a step changes the cells of interval j
\* only if it is the update_summary of interval j.
C16_CellsWrittenOnce ==
    /\ [](/\ \A j \in DOMAIN summary_arr :
               (j > idfts \/ (j = idfts /\ pc \in {"interval", "summary"})) => Untouched(j)
          /\ pc = "summary" =>
               \A c, e \in DOMAIN dat.cols :
                  (Summarized(dat.cols[c]) /\ Summarized(dat.cols[e]) /\ CellKey(c) = CellKey(e))
                    => c = e)
    /\ [][\A j \in DOMAIN summary_arr :
             summary_arr'[j] # summary_arr[j] => (pc = "summary" /\ j = idfts)]_vars

\* C16: two intervals have been summarized, and a cell of the second holds
\* other statistics than the same cell of the first.
C16_Witness ==
    /\ JustSummarized
    /\ idfts >= 2
    /\ \E cell \in DOMAIN summary_arr[0] :
          /\ summary_arr[idfts - 1][cell] # EmptyCell
          /\ summary_arr[0][cell] # EmptyCell
          /\ summary_arr[0][cell] # summary_arr[idfts - 1][cell]

\* the branches of the site's chain whose date condition holds on day d
Selected(site, d) == {b \in DOMAIN RuleConditions(site, d) : RuleConditions(site, d)[b]}

\* C17 as stated: every reference date selects exactly one rule of the site,
\* never zero and never two.
C17_ExactlyOneRule == Cardinality(Selected(hsite, DateOf(hfts))) = 1

\* C17, amended: no reference date selects two rules of a site.  Every date
\* selects exactly one rule for NF17, NF3 and SF7 (the maintenance rule on
\* 2019-05-19), for UF3 after 2019-02-13 and for SF4 before 2100-11-19; UF3
\* on or before 2019-02-13 and SF4 on or after 2100-11-19 select none, and
\* those are the calls that end in UnboundLocalError.
C17_AtMostOneRule ==
    LET d == DateOf(hfts)
        none == \/ hsite = "UF3" /\ d <= Day_2019_02_13
                \/ hsite = "SF4" /\ d >= Day_2100_11_19
    IN  /\ Cardinality(Selected(hsite, d)) = (IF none THEN 0 ELSE 1)
        /\ (Selected(hsite, d) = {}) = (HeaderRule(hsite, d).kind = "unbound")
        /\ (Selected(hsite, d) = {3}) = (HeaderRule(hsite, d).kind = "maintenance")
        /\ hout # Idle => (hout.st = "UnboundLocalError") = none

\* C17: reorder_headers was called for UF3 with a file of 2019-02-13 and
\* ended in UnboundLocalError.
C17_Witness ==
    hsite = "UF3" /\ DateOf(hfts) = Day_2019_02_13 /\ hout.st = "UnboundLocalError"

\* the last n members of s
Suffix(s, n) == SubSeq(s, Len(s) - n + 1, Len(s))

\* t is s, or s shortened from the front
IsSuffix(t, s) == Len(t) <= Len(s) /\ t = Suffix(s, Len(t))

\* the index of info is the one find_fast_files produced, found
SameIndex(info, found) == info.fns = found.fns /\ info.file_tss = found.file_tss

\* C19: throughout the loop and after it, fns and file_tss of every site are
\* what find_fast_files produced; fns_temp and file_tss_temp have equal
\* length and are the same suffix of fns and of file_tss, and a step only
\* shortens them from the front.
C19_CopiesOnly ==
    /\ [](pc # "start" =>
            \A site \in Range(site_names) :
               /\ SameIndex(site_info[site], find_fast_files(converted[site]))
               /\ Len(site_info[site].fns_temp) = Len(site_info[site].file_tss_temp)
               /\ IsSuffix(site_info[site].fns_temp, site_info[site].fns)
               /\ IsSuffix(site_info[site].file_tss_temp, site_info[site].file_tss))
    /\ [][pc # "start" =>
            \A site \in Range(site_names) :
               /\ site_info'[site].fns = site_info[site].fns
               /\ site_info'[site].file_tss = site_info[site].file_tss
               /\ IsSuffix(site_info'[site].fns_temp, site_info[site].fns_temp)
               /\ IsSuffix(site_info'[site].file_tss_temp, site_info[site].file_tss_temp)]_vars

\* C19: a finished run that popped both files of a site's index: the
\* copies are empty, the index still holds the two files.
C19_Witness ==
    /\ pc = "done"
    /\ \E site \in Range(site_names) :
          /\ Len(site_info[site].fns) = 2
          /\ Len(site_info[site].file_tss) = 2
          /\ site_info[site].fns_temp = <<>>
          /\ site_info[site].file_tss_temp = <<>>

====
